---- MODULE Spec2Model ----
(***************************************************************************)
(* Model of isomorphic-html-webpack-plugin: the sandbox evaluator          *)
(* (evaluate.ts, in its two versions), and the generator driver            *)
(* (IsomorphicHtmlWebpackPlugin.generate, findAssets, exportAsset,         *)
(* pathToAssetName).                                                       *)
(*                                                                         *)
(* Text is modelled as a sequence of one-character strings, so that the    *)
(* regular expressions and path.join of the source are computed character  *)
(* by character.                                                           *)
(***************************************************************************)
EXTENDS Integers, Sequences, FiniteSets, TLC

(***************************************************************************)
(* Bounds of the model.                                                    *)
(***************************************************************************)
\* number of pieces an output path is concatenated from
MaxPieces == 3
\* length of a source text handed to evaluate in the script-building spec
MaxSourceLen == 4

(***************************************************************************)
(* Text helpers.                                                           *)
(***************************************************************************)
NL == "\n"

\* the texts made of at most n pieces of P
RECURSIVE TextsOf(_, _)
TextsOf(P, n) ==
  IF n = 0 THEN {<<>>}
  ELSE LET shorter == TextsOf(P, n - 1)
       IN  shorter \cup {t \o p : t \in shorter, p \in P}

\* JavaScript's String.prototype.toLowerCase on the letters of the model
ToLower(c) ==
  CASE c = "H" -> "h"
    [] c = "T" -> "t"
    [] c = "M" -> "m"
    [] c = "L" -> "l"
    [] OTHER   -> c

LowerText(s) == [i \in 1..Len(s) |-> ToLower(s[i])]

EndsWith(s, suf) ==
  /\ Len(s) >= Len(suf)
  /\ SubSeq(s, Len(s) - Len(suf) + 1, Len(s)) = suf

IsSeparator(c) == c = "/" \/ c = "\\"

BeginsWithSeparator(s) == Len(s) > 0 /\ IsSeparator(s[1])

RECURSIVE SplitOn(_, _)
\* s.split(c): the pieces of s between the occurrences of c
SplitOn(s, c) ==
  IF \A i \in 1..Len(s) : s[i] # c THEN <<s>>
  ELSE LET i == CHOOSE j \in 1..Len(s) :
                  s[j] = c /\ \A k \in 1..(j - 1) : s[k] # c
       IN  <<SubSeq(s, 1, i - 1)>> \o SplitOn(SubSeq(s, i + 1, Len(s)), c)

RECURSIVE Flatten(_)
\* a text as one string
Flatten(s) == IF s = <<>> THEN "" ELSE Head(s) \o Flatten(Tail(s))

RECURSIVE JoinWith(_, _)
\* segs.join(c)
JoinWith(segs, c) ==
  IF segs = <<>> THEN <<>>
  ELSE IF Len(segs) = 1 THEN segs[1]
  ELSE segs[1] \o <<c>> \o JoinWith(Tail(segs), c)

(***************************************************************************)
(* path.join of Node's posix path module, as pathToAssetName uses it.      *)
(***************************************************************************)
DOT == <<".">>
DOTDOT == <<".", ".">>

RECURSIVE NormalizeSegments(_, _, _)
\* posix normalizeString: drops '' and '.', resolves '..' against the
\* segments kept so far (kept when there is nothing to resolve against and
\* the path is relative)
NormalizeSegments(segs, acc, isAbsolute) ==
  IF segs = <<>> THEN acc
  ELSE LET s == Head(segs)
           rest == Tail(segs)
       IN  IF s = <<>> \/ s = DOT
           THEN NormalizeSegments(rest, acc, isAbsolute)
           ELSE IF s = DOTDOT
           THEN IF acc # <<>> /\ acc[Len(acc)] # DOTDOT
                THEN NormalizeSegments(rest, SubSeq(acc, 1, Len(acc) - 1), isAbsolute)
                ELSE IF isAbsolute
                THEN NormalizeSegments(rest, acc, isAbsolute)
                ELSE NormalizeSegments(rest, Append(acc, s), isAbsolute)
           ELSE NormalizeSegments(rest, Append(acc, s), isAbsolute)

\* posix path.normalize
PathNormalize(p) ==
  IF p = <<>> THEN DOT
  ELSE LET isAbsolute == p[1] = "/"
           trailing == p[Len(p)] = "/"
           body == JoinWith(NormalizeSegments(SplitOn(p, "/"), <<>>, isAbsolute), "/")
           body1 == IF body = <<>> /\ ~isAbsolute THEN DOT ELSE body
           body2 == IF body1 # <<>> /\ trailing THEN body1 \o <<"/">> ELSE body1
       IN  IF isAbsolute THEN <<"/">> \o body2 ELSE body2

\* posix path.join(a, b): the non-empty arguments joined by '/', normalized
PathJoin(a, b) ==
  LET parts == SelectSeq(<<a, b>>, LAMBDA x : x # <<>>)
  IN  IF parts = <<>> THEN DOT ELSE PathNormalize(JoinWith(parts, "/"))

(***************************************************************************)
(* pathToAssetName (IsomorphicHtmlWebpackPlugin.ts).                       *)
(***************************************************************************)
INDEX_HTML == <<"i", "n", "d", "e", "x", ".", "h", "t", "m", "l">>
EXT_HTML == <<".", "h", "t", "m", "l">>
EXT_HTM == <<".", "h", "t", "m">>

\* outputPath.replace(/^(\/|\\)/, ''): the pattern is anchored and has no
\* repetition, so it removes one character
RemoveLeadingSlashes(outputPath) ==
  IF BeginsWithSeparator(outputPath) THEN Tail(outputPath) ELSE outputPath

\* /\.(html?)$/i.test(name)
HasHtmlExtension(name) ==
  EndsWith(LowerText(name), EXT_HTML) \/ EndsWith(LowerText(name), EXT_HTM)

pathToAssetName(outputPath) ==
  LET outputFileName == RemoveLeadingSlashes(outputPath)
  IN  IF ~HasHtmlExtension(outputFileName)
      THEN PathJoin(outputFileName, INDEX_HTML)
      ELSE outputFileName

(***************************************************************************)
(* evaluate's script text (evaluate.ts and its later version).             *)
(***************************************************************************)
\* the two versions of evaluate.ts in the repository
EvaluateVersions == {"evaluate.ts", "part_000"}

\* number of lines of the text of function makeGlobals
MakeGlobalsLines == 69

\* makeGlobals.toString(): one character stands for the text of each line
MakeGlobalsText == JoinWith([i \in 1..MakeGlobalsLines |-> <<"g">>], NL)

\* ";makeGlobals(global);"
MakeGlobalsCall == <<";", "c", ";">>

\* source.replace(/^\#\!.*/, ''): '.' does not match a line terminator, so
\* the line break ending the directive stays
removeShebang(source) ==
  IF Len(source) >= 2 /\ source[1] = "#" /\ source[2] = "!"
  THEN LET stop == IF \E i \in 1..Len(source) : source[i] = NL
                   THEN CHOOSE i \in 1..Len(source) :
                          source[i] = NL /\ \A k \in 1..(i - 1) : source[k] # NL
                   ELSE Len(source) + 1
       IN  SubSeq(source, stop, Len(source))
  ELSE source

\* the text handed to new Script(...)
ScriptText(version, source) ==
  IF version = "part_000"
  THEN MakeGlobalsText \o MakeGlobalsCall \o removeShebang(source)
  ELSE removeShebang(source)

Lines(text) == SplitOn(text, NL)

HasShebang(source) == Len(source) >= 2 /\ source[1] = "#" /\ source[2] = "!"

(***************************************************************************)
(* JavaScript values and the heap.  A value is a primitive or a reference  *)
(* to an object of the heap; the heap is the sequence of the objects       *)
(* allocated so far, an object's address being its index.                  *)
(***************************************************************************)
Str(x) == [t |-> "string", s |-> x, r |-> 0, n |-> <<>>]
Ref(a) == [t |-> "ref", s |-> "", r |-> a, n |-> <<>>]
Undefined == [t |-> "undefined", s |-> "", r |-> 0, n |-> <<>>]
Null == [t |-> "null", s |-> "", r |-> 0, n |-> <<>>]
\* a binding the context itself provides (a built-in of the new context)
ContextBuiltin(name) == [t |-> "builtin", s |-> name, r |-> 0, n |-> <<>>]
\* a value of the host process that evaluated code cannot be handed by the
\* caller: what require('timers') and require('buffer') export, main, ...
HostValue(name) == [t |-> "host", s |-> name, r |-> 0, n |-> <<>>]
\* an identifier that resolves to nothing
Unbound == [t |-> "unbound", s |-> "", r |-> 0, n |-> <<>>]
\* no exception in flight
NoThrow == [t |-> "none", s |-> "", r |-> 0, n |-> <<>>]
\* an Error object: it has a stack, whose text starts with the message; n is
\* the name the message quotes (an entry point, an asset), <<>> when none
ErrorAbout(message, name) == [t |-> "error", s |-> message, r |-> 0, n |-> name]
ErrorValue(message) == ErrorAbout(message, <<>>)

EmptyProps == [k \in {} |-> Undefined]

NewObject(props) == [class |-> "object", props |-> props, owner |-> 0, code |-> ""]
NewFunction(code, props) == [class |-> "function", props |-> props, owner |-> 0, code |-> code]

\* props with k set to val
WithProp(props, k, val) ==
  [x \in DOMAIN props \cup {k} |-> IF x = k THEN val ELSE props[x]]

IsRef(v) == v.t = "ref"

\* hasOwnProperty on a value that can be dereferenced
HasOwn(h, v, k) ==
  /\ IsRef(v)
  /\ \/ k \in DOMAIN h[v.r].props
     \/ h[v.r].class = "module" /\ k = "exports"

\* v[k], for v neither undefined nor null.  The module descriptor's exports
\* is an accessor: get exports() { return sandbox.exports; }
GetProp(h, v, k) ==
  IF ~IsRef(v) THEN Undefined
  ELSE LET o == h[v.r]
       IN  IF o.class = "module" /\ k = "exports"
           THEN IF "exports" \in DOMAIN h[o.owner].props
                THEN h[o.owner].props["exports"] ELSE Undefined
           ELSE IF k \in DOMAIN o.props THEN o.props[k] ELSE Undefined

\* set exports(val) { sandbox.exports = val; }
ModuleSetExportsDropped(h, sandbox, val) == h

ModuleSetExports(h, sandbox, val) ==
  [h EXCEPT ![sandbox].props = WithProp(@, "exports", val)]

\* v[k] = val in sloppy mode, for v neither undefined nor null: a write to a
\* primitive is dropped
SetProp(h, v, k, val) ==
  IF ~IsRef(v) THEN h
  ELSE LET o == h[v.r]
       IN  IF o.class = "module" /\ k = "exports"
           THEN ModuleSetExports(h, o.owner, val)
           ELSE [h EXCEPT ![v.r].props = WithProp(@, k, val)]

\* typeof v
TypeOf(h, v) ==
  CASE v.t = "string" -> "string"
    [] v.t = "undefined" -> "undefined"
    [] v.t = "ref" -> IF h[v.r].class = "function" THEN "function" ELSE "object"
    [] v.t \in {"host", "builtin"} -> "function"
    [] OTHER -> "object"

Nullish(v) == v.t \in {"undefined", "null", "unbound"}

(***************************************************************************)
(* evaluate (evaluate.ts and its later version): building the sandbox.     *)
(***************************************************************************)
\* the host's require.cache and process.env: one object each per process
HostRequireCache == 1
HostProcessEnv == 2

\* allocation: the heap with one more object, and the new object's address
Alloc(h, obj) == [heap |-> Append(h, obj), addr |-> Len(h) + 1]

\* const sandbox = globals;  (no copy: the caller's object is the scope)
NewSandboxAliased(h, globals) == [heap |-> h, addr |-> globals]

\* const sandbox = {};  (the caller's bindings are not copied)
NewSandboxEmpty(h, globals) == Alloc(h, NewObject(EmptyProps))

\* const sandbox = { ...globals };
NewSandbox(h, globals) == Alloc(h, NewObject(h[globals].props))

\* function requireLike(path): a new function per call; its cache is the
\* host's require.cache itself
requireLike(h, path) ==
  Alloc(h, NewFunction("requireLike",
    [k \in {"resolve", "main", "extensions", "cache"} |->
       CASE k = "cache" -> Ref(HostRequireCache)
         [] OTHER -> HostValue("require." \o k)]))

\* sandbox.module = { filename, id, parent, require, get/set exports }
NewModule(h, sandbox, moduleName, req) ==
  Alloc(h, [class |-> "module", owner |-> sandbox, code |-> "",
            props |-> [k \in {"filename", "id", "parent", "require"} |->
              CASE k = "filename" -> Str(Flatten(moduleName))
                [] k = "id" -> Str(Flatten(moduleName))
                [] k = "parent" -> HostValue("module")
                [] OTHER -> req]])

\* sandbox.process = { title, version, arch, platform, release, env }: env is
\* the host's process.env itself
NewProcess(h, moduleName) ==
  Alloc(h, NewObject(
    [k \in {"title", "version", "arch", "platform", "release", "env"} |->
       CASE k = "title" -> Str(Flatten(moduleName))
         [] k = "env" -> Ref(HostProcessEnv)
         [] OTHER -> HostValue("process." \o k)]))

\* an identifier read by code running in the context: the sandbox's own
\* property when there is one, else the new context's built-in
ReadIdentifier(h, sandbox, name) ==
  IF name \in DOMAIN h[sandbox].props THEN h[sandbox].props[name]
  ELSE ContextBuiltin(name)

\* The assignments of makeGlobals, in source order.  Three kinds occur:
\*  "required": global.X = X with X a local constant taken from
\*              require('buffer') or require('timers');
\*  "ambient":  global.X = X with X an identifier of the context;
\*  "self":     global.X = global.
\* One line stands for each run of lines of the same kind and shape.
MakeGlobalsAssignments ==
  << [name |-> "Buffer", from |-> "required"],
     [name |-> "GLOBAL", from |-> "self"],
     [name |-> "JSON", from |-> "ambient"],
     [name |-> "clearTimeout", from |-> "required"],
     [name |-> "console", from |-> "ambient"],
     [name |-> "global", from |-> "self"],
     [name |-> "root", from |-> "self"],
     [name |-> "setTimeout", from |-> "required"] >>

RECURSIVE makeGlobalsFrom(_, _, _)
makeGlobalsFrom(h, global, todo) ==
  IF todo = <<>> THEN h
  ELSE LET a == Head(todo)
           val == CASE a.from = "required" -> HostValue("host." \o a.name)
                    [] a.from = "self" -> Ref(global)
                    [] OTHER -> ReadIdentifier(h, global, a.name)
       IN  makeGlobalsFrom([h EXCEPT ![global].props = WithProp(@, a.name, val)],
                           global, Tail(todo))

\* function makeGlobals(global)
makeGlobals(h, global) == makeGlobalsFrom(h, global, MakeGlobalsAssignments)

\* evaluate, up to the start of the script: the heap, the sandbox, and the
\* exports object installed before the script runs
evaluateSetup(version, h, moduleName, globals) ==
  LET sb == NewSandbox(h, globals)
      ex == Alloc(sb.heap, NewObject(EmptyProps))
      h1 == [ex.heap EXCEPT ![sb.addr].props = WithProp(@, "exports", Ref(ex.addr))]
      rq == requireLike(h1, moduleName)
      h2 == [rq.heap EXCEPT ![sb.addr].props = WithProp(@, "require", Ref(rq.addr))]
      md == NewModule(h2, sb.addr, moduleName, Ref(rq.addr))
      h3 == [md.heap EXCEPT ![sb.addr].props = WithProp(@, "module", Ref(md.addr))]
      pr == NewProcess(h3, moduleName)
      h4 == IF version = "part_000"
            THEN [pr.heap EXCEPT ![sb.addr].props = WithProp(@, "process", Ref(pr.addr))]
            ELSE h3
      h5 == [h4 EXCEPT ![sb.addr].props = WithProp(@, "global", Ref(sb.addr))]
      h6 == IF version = "part_000" THEN makeGlobals(h5, sb.addr) ELSE h5
  IN  [heap |-> h6, sandbox |-> sb.addr, exports |-> Ref(ex.addr),
       module |-> Ref(md.addr)]

(***************************************************************************)
(* The evaluated code, as the statements it runs.  A statement is          *)
(* [op, name, lit]; lit is the literal on its right-hand side.             *)
(***************************************************************************)
StrLit(x) == [kind |-> "string", s |-> x, key |-> ""]
\* { key: 's' }, or {} when key is ""
ObjLit(key, x) == [kind |-> "object", s |-> x, key |-> key]
\* function (...) { code }
FunLit(code) == [kind |-> "function", s |-> code, key |-> ""]
UndefLit == [kind |-> "undefined", s |-> "", key |-> ""]
\* new Error(message)
ErrLit(message) == [kind |-> "error", s |-> message, key |-> ""]

Stmt(op, name, lit) == [op |-> op, name |-> name, lit |-> lit]

\* the value of a literal, and the heap after allocating it
EvalLiteral(h, lit) ==
  CASE lit.kind = "string" -> [heap |-> h, val |-> Str(lit.s)]
    [] lit.kind = "undefined" -> [heap |-> h, val |-> Undefined]
    [] lit.kind = "error" -> [heap |-> h, val |-> ErrorValue(lit.s)]
    [] lit.kind = "function" ->
         LET a == Alloc(h, NewFunction(lit.s, EmptyProps))
         IN  [heap |-> a.heap, val |-> Ref(a.addr)]
    [] OTHER ->
         LET a == Alloc(h, NewObject(IF lit.key = "" THEN EmptyProps
                                     ELSE [k \in {lit.key} |-> Str(lit.s)]))
         IN  [heap |-> a.heap, val |-> Ref(a.addr)]

\* a top-level identifier of the script: a property of the sandbox
ReadBinding(h, sandbox, name) ==
  IF name \in DOMAIN h[sandbox].props THEN h[sandbox].props[name] ELSE Unbound

Threw(h, message) == [heap |-> h, thrown |-> ErrorValue(message)]
Ran(h) == [heap |-> h, thrown |-> NoThrow]

\* target.name = lit, where target was read from base (an identifier or a
\* property chain): TypeError when target is undefined or null
AssignField(h, target, name, lit) ==
  IF Nullish(target) THEN Threw(h, "TypeError")
  ELSE LET v == EvalLiteral(h, lit)
       IN  Ran(SetProp(v.heap, target, name, v.val))

\* one statement of the script, run in the context of sandbox
ExecStmt(h, sandbox, st) ==
  LET exportsNow == ReadBinding(h, sandbox, "exports")
      moduleNow == ReadBinding(h, sandbox, "module")
      requireNow == ReadBinding(h, sandbox, "require")
      processNow == ReadBinding(h, sandbox, "process")
  IN
  CASE st.op = "exports.k=" -> AssignField(h, exportsNow, st.name, st.lit)
    [] st.op = "exports=" ->
         LET v == EvalLiteral(h, st.lit)
         IN  Ran([v.heap EXCEPT ![sandbox].props = WithProp(@, "exports", v.val)])
    [] st.op = "module.exports.k=" ->
         AssignField(h, GetProp(h, moduleNow, "exports"), st.name, st.lit)
    [] st.op = "module.exports=" ->
         LET v == EvalLiteral(h, st.lit)
         IN  Ran(SetProp(v.heap, moduleNow, "exports", v.val))
    [] st.op = "x=" ->
         LET v == EvalLiteral(h, st.lit)
         IN  Ran([v.heap EXCEPT ![sandbox].props = WithProp(@, st.name, v.val)])
    [] st.op = "d.k=" ->
         IF ReadBinding(h, sandbox, "d") = Unbound THEN Threw(h, "ReferenceError")
         ELSE AssignField(h, ReadBinding(h, sandbox, "d"), st.name, st.lit)
    [] st.op = "require.cache.k=" ->
         AssignField(h, GetProp(h, requireNow, "cache"), st.name, st.lit)
    [] st.op = "process.env.k=" ->
         IF processNow = Unbound THEN Threw(h, "ReferenceError")
         ELSE AssignField(h, GetProp(h, processNow, "env"), st.name, st.lit)
    [] OTHER -> \* throw lit
         LET v == EvalLiteral(h, st.lit)
         IN  [heap |-> v.heap, thrown |-> v.val]

RECURSIVE RunScript(_, _, _)
\* script.runInNewContext(sandbox): the statements in order, up to the first
\* that throws
RunScript(h, sandbox, stmts) ==
  IF stmts = <<>> THEN Ran(h)
  ELSE LET r == ExecStmt(h, sandbox, Head(stmts))
       IN  IF r.thrown # NoThrow THEN r ELSE RunScript(r.heap, sandbox, Tail(stmts))

\* return sandbox.exports;
evaluateResult(h, sandbox) == ReadBinding(h, sandbox, "exports")

\* evaluate(source, moduleName, globals): what it returns or throws, and the
\* heap it leaves
evaluate(version, h, stmts, moduleName, globals) ==
  LET su == evaluateSetup(version, h, moduleName, globals)
      r == RunScript(su.heap, su.sandbox, stmts)
  IN  [heap |-> r.heap, thrown |-> r.thrown, sandbox |-> su.sandbox,
       value |-> IF r.thrown = NoThrow THEN evaluateResult(r.heap, su.sandbox)
                 ELSE Undefined]

(***************************************************************************)
(* State.                                                                  *)
(***************************************************************************)
VARIABLES
  \* pathToAssetName applied to one output path
  pathPc, outputPath, assetName,
  \* the script text evaluate builds from one source text
  scriptPc, source, script,
  \* which version of evaluate.ts is loaded; the objects allocated so far
  version, heap,
  \* the calls of evaluate in progress, and the step taken last
  evals, lastOp,
  \* one run of generate: where it is, compilation.assets,
  \* stats.toJson().assetsByChunkName[entry], compilation.errors, and what
  \* the awaited generator call gave
  genPc, assets, chunkNames, errors, pending,
  \* history of the run: the assets it started with, what evaluate returned,
  \* the calls of the generator, of findAssets and of evaluate, and whether
  \* anything was thrown or rejected
  assets0, generatorModule, calls, findAssetsCalls, evaluateCalls, failed

pathVars == <<pathPc, outputPath, assetName>>
scriptVars == <<scriptPc, source, script>>
evalVars == <<evals, lastOp>>
genVars == <<genPc, assets, chunkNames, errors, pending, assets0,
             generatorModule, calls, findAssetsCalls, evaluateCalls, failed>>
vars == <<pathVars, scriptVars, version, heap, evalVars, genVars>>

\* moduleName of the evaluations of the model, and the entry option
ENTRY == <<"t", "e", "s", "t">>

\* addresses of the objects the caller of evaluate owns: an object it puts in
\* its globals, the globals object, and the plugin's locals option
CallerObject == 3
CallerGlobals == 4
LocalsObject == 5

EvalIds == {1, 2}

IdleEval ==
  [status |-> "idle", sandbox |-> 0, module |-> Undefined,
   initialExports |-> Undefined, lastAssigned |-> Undefined,
   expected |-> EmptyProps, steps |-> 0, result |-> Undefined]

\* the heap before any evaluation, the caller's globals holding globalsProps
HostHeap(globalsProps) ==
  << NewObject(EmptyProps),                      \* require.cache
     NewObject(EmptyProps),                      \* process.env
     NewObject(EmptyProps),                      \* an object of the caller
     NewObject(globalsProps),                    \* the globals argument
     NewObject([k \in {"c"} |-> Str("c")]) >>    \* the locals option

PathIdle == pathPc = "off" /\ outputPath = <<>> /\ assetName = <<>>
ScriptIdle == scriptPc = "off" /\ source = <<>> /\ script = <<>>
EvalIdle ==
  /\ evals = [e \in EvalIds |-> IdleEval]
  /\ lastOp = [eval |-> 0, op |-> "none"]

\* no generator call awaited
NoOutcome == [kind |-> "none", val |-> Undefined, shape |-> "", entries |-> <<>>]

NoAssets == [k \in {} |-> [script |-> <<>>, html |-> Undefined]]
NoChunks == [kind |-> "none", names |-> <<>>]

GenIdle ==
  /\ genPc = "off" /\ assets = NoAssets /\ assets0 = NoAssets
  /\ chunkNames = NoChunks /\ errors = <<>> /\ pending = NoOutcome
  /\ generatorModule = Unbound /\ calls = <<>>
  /\ findAssetsCalls = 0 /\ evaluateCalls = 0 /\ failed = FALSE

(***************************************************************************)
(* SpecPath: pathToAssetName on every output path of the bound.            *)
(***************************************************************************)
PathPieces ==
  { <<"/">>, <<"\\">>, <<"a">>, <<".", ".">>, EXT_HTML, EXT_HTM,
    <<".", "H", "T", "M", "L">> }

OutputPaths == TextsOf(PathPieces, MaxPieces)

InitPath ==
  /\ pathPc = "path" /\ outputPath \in OutputPaths /\ assetName = <<>>
  /\ ScriptIdle /\ EvalIdle /\ GenIdle
  /\ version = "evaluate.ts" /\ heap = HostHeap(EmptyProps)

\* const assetName = pathToAssetName(fileName);
NameAsset ==
  /\ pathPc = "path"
  /\ assetName' = pathToAssetName(outputPath)
  /\ pathPc' = "named"
  /\ UNCHANGED <<outputPath, scriptVars, version, heap, evalVars, genVars>>

NextPath == NameAsset

SpecPath == InitPath /\ [][NextPath]_vars

(***************************************************************************)
(* SpecScript: the text evaluate hands to the Script constructor.          *)
(***************************************************************************)
\* the source texts of the bound; an empty source has no line to place
SourceTexts == TextsOf({<<"#">>, <<"!">>, <<"x">>, <<NL>>}, MaxSourceLen) \ {<<>>}

InitScript ==
  /\ scriptPc = "source" /\ source \in SourceTexts /\ script = <<>>
  /\ version \in EvaluateVersions /\ heap = HostHeap(EmptyProps)
  /\ PathIdle /\ EvalIdle /\ GenIdle

\* new Script(...)
BuildScript ==
  /\ scriptPc = "source"
  /\ script' = ScriptText(version, source)
  /\ scriptPc' = "built"
  /\ UNCHANGED <<source, pathVars, version, heap, evalVars, genVars>>

NextScript == BuildScript

SpecScript == InitScript /\ [][NextScript]_vars

(***************************************************************************)
(* Evaluations, statement by statement.                                    *)
(***************************************************************************)
\* statements one evaluation runs at most
MaxStmts == 3
\* statements each of two evaluations runs at most
MaxIsoStmts == 2

\* what the caller may bind in the globals it passes
CallerBindings ==
  { g \in [{"d", "exports", "setTimeout", "console"} -> 
             {Undefined, Str("d"), Ref(CallerObject), Str("mine"),
              HostValue("window.setTimeout"), HostValue("window.console")}] :
      /\ g["d"] \in {Undefined, Str("d"), Ref(CallerObject)}
      /\ g["exports"] \in {Undefined, Str("mine")}
      /\ g["setTimeout"] \in {Undefined, HostValue("window.setTimeout")}
      /\ g["console"] \in {Undefined, HostValue("window.console")} }

\* the globals object: the names bound to something
GlobalsProps(g) == [k \in {x \in DOMAIN g : g[x] # Undefined} |-> g[k]]

\* const sandbox = ...; sandbox.exports = {}; ... up to the script's start
Begin(e) ==
  /\ evals[e].status = "idle"
  /\ LET su == evaluateSetup(version, heap, ENTRY, CallerGlobals)
     IN  /\ heap' = su.heap
         /\ evals' = [evals EXCEPT ![e] =
              [status |-> "running", sandbox |-> su.sandbox, module |-> su.module,
               initialExports |-> su.exports, lastAssigned |-> su.exports,
               expected |-> EmptyProps, steps |-> 0, result |-> Undefined]]
  /\ lastOp' = [eval |-> e, op |-> "begin"]
  /\ UNCHANGED <<pathVars, scriptVars, version, genVars>>

\* the value last assigned to exports, and the properties given to it since,
\* as the statements say it (history, not read from the sandbox)
Assigned(ev, h, st) ==
  IF st.op \in {"exports=", "module.exports="} THEN EvalLiteral(h, st.lit).val
  ELSE ev.lastAssigned

Expected(ev, h, st) ==
  CASE st.op \in {"exports=", "module.exports="} ->
         IF st.lit.kind = "object" /\ st.lit.key # ""
         THEN [k \in {st.lit.key} |-> Str(st.lit.s)] ELSE EmptyProps
    [] st.op \in {"exports.k=", "module.exports.k="} /\ IsRef(ev.lastAssigned) ->
         WithProp(ev.expected, st.name, EvalLiteral(h, st.lit).val)
    [] OTHER -> ev.expected

\* the script of evaluation e runs one statement
Step(e, st, bound) ==
  /\ evals[e].status = "running"
  /\ evals[e].steps < bound
  /\ LET r == ExecStmt(heap, evals[e].sandbox, st)
     IN  /\ heap' = r.heap
         /\ evals' = [evals EXCEPT ![e] =
              IF r.thrown # NoThrow
              THEN [@ EXCEPT !.status = "threw", !.result = r.thrown]
              ELSE [@ EXCEPT !.steps = @ + 1,
                             !.lastAssigned = Assigned(evals[e], heap, st),
                             !.expected = Expected(evals[e], heap, st)]]
  /\ lastOp' = [eval |-> e, op |-> st.op]
  /\ UNCHANGED <<pathVars, scriptVars, version, genVars>>

\* return sandbox.exports;
Return(e) ==
  /\ evals[e].status = "running"
  /\ evals' = [evals EXCEPT ![e] =
       [@ EXCEPT !.status = "returned",
                 !.result = evaluateResult(heap, evals[e].sandbox)]]
  /\ lastOp' = [eval |-> e, op |-> "return"]
  /\ UNCHANGED <<heap, pathVars, scriptVars, version, genVars>>

(***************************************************************************)
(* SpecEval: one evaluation running the export statements.                 *)
(***************************************************************************)
ExportStmts ==
  { Stmt("exports.k=", "var0", StrLit("val0")),
    Stmt("module.exports.k=", "var0", StrLit("val0")),
    Stmt("module.exports.k=", "var2", StrLit("val2")),
    Stmt("exports=", "", ObjLit("var1", "val1")),
    Stmt("exports=", "", StrLit("a")),
    Stmt("module.exports=", "", ObjLit("var1", "val1")),
    Stmt("module.exports=", "", FunLit("f")),
    Stmt("throw", "", ErrLit("boom")) }

InitEval ==
  /\ version \in EvaluateVersions
  /\ \E g \in CallerBindings : heap = HostHeap(GlobalsProps(g))
  /\ evals = [e \in EvalIds |-> IdleEval]
  /\ lastOp = [eval |-> 0, op |-> "none"]
  /\ PathIdle /\ ScriptIdle /\ GenIdle

NextEval ==
  \/ Begin(1)
  \/ \E st \in ExportStmts : Step(1, st, MaxStmts)
  \/ Return(1)

SpecEval == InitEval /\ [][NextEval]_vars

(***************************************************************************)
(* SpecIso: two evaluations given the same globals, their statements       *)
(* interleaved (one nested in the other through require, or run from       *)
(* callbacks of the host), running statements that change state.           *)
(***************************************************************************)
MutatingStmts ==
  { Stmt("x=", "x", StrLit("new")),
    Stmt("x=", "d", StrLit("new")),
    Stmt("d.k=", "f", StrLit("new")),
    Stmt("require.cache.k=", "m", StrLit("new")),
    Stmt("process.env.k=", "E", StrLit("new")) }

InitIso ==
  /\ version \in EvaluateVersions
  /\ \E g \in CallerBindings :
       /\ g["exports"] = Undefined /\ g["setTimeout"] = Undefined
       /\ g["console"] = Undefined
       /\ heap = HostHeap(GlobalsProps(g))
  /\ evals = [e \in EvalIds |-> IdleEval]
  /\ lastOp = [eval |-> 0, op |-> "none"]
  /\ PathIdle /\ ScriptIdle /\ GenIdle

NextIso ==
  \/ \E e \in EvalIds : Begin(e)
  \/ \E e \in EvalIds : \E st \in MutatingStmts : Step(e, st, MaxIsoStmts)
  \/ \E e \in EvalIds : Return(e)

SpecIso == InitIso /\ [][NextIso]_vars

(***************************************************************************)
(* Properties of evaluate.                                                 *)
(***************************************************************************)
\* C1: after each export statement (exports.k = v, exports = v,
\* module.exports.k = v, module.exports = v) reading exports and reading
\* module.exports give the same value, which is the value assigned last;
\* evaluate returns that value, carrying the properties set on it since, and
\* not the object installed before the script started.
C1_ExportsFollowLastAssignment ==
  \A e \in EvalIds :
    LET ev == evals[e]
        moduleNow == ReadBinding(heap, ev.sandbox, "module")
        exportsNow == ReadBinding(heap, ev.sandbox, "exports")
    IN  /\ ev.status = "running" =>
             /\ exportsNow = GetProp(heap, moduleNow, "exports")
             /\ exportsNow = ev.lastAssigned
        /\ ev.status = "returned" =>
             /\ ev.result = ev.lastAssigned
             /\ IsRef(ev.result) => heap[ev.result.r].props = ev.expected

\* an evaluation returned an object assigned during the run, with a property
\* set through module.exports after the assignment
C1_Witness ==
  \E e \in EvalIds :
    /\ evals[e].status = "returned"
    /\ evals[e].result # evals[e].initialExports
    /\ IsRef(evals[e].result)
    /\ {"var1", "var2"} \subseteq DOMAIN heap[evals[e].result.r].props

\* the names evaluate assigns from values of its own after copying the
\* caller's bindings
InstalledNames(v) ==
  {"exports", "require", "module", "global"} \cup
  (IF v = "part_000"
   THEN {"process", "Buffer", "GLOBAL", "clearTimeout", "root", "setTimeout"}
   ELSE {})

Exposed(h, evs, o) ==
  LET sb == evs[o].sandbox
      cache == GetProp(h, ReadBinding(h, sb, "require"), "cache")
      proc == ReadBinding(h, sb, "process")
  IN  [scope |-> h[sb].props,
       cache |-> IF IsRef(cache) THEN h[cache.r].props ELSE EmptyProps,
       env |-> IF IsRef(proc) /\ IsRef(GetProp(h, proc, "env"))
               THEN h[GetProp(h, proc, "env").r].props ELSE EmptyProps]

\* C7 (as first stated): no statement of one evaluation changes what the
\* other evaluation can read of its global scope, of require.cache or of
\* process.env.
C7_NoSharedState ==
  [][\A e \in EvalIds :
       (lastOp'.eval = e /\ lastOp'.op \in {"x=", "require.cache.k=", "process.env.k="}) =>
         \A o \in EvalIds \ {e} :
           evals[o].status = "running" =>
             Exposed(heap', evals', o) = Exposed(heap, evals, o)]_vars

\* C7 (amended): building the sandbox of an evaluation and assigning a
\* top-level binding in it change neither the caller's globals object nor
\* the global scope of another evaluation.
C7_OwnScopeIsolated ==
  [][\A e \in EvalIds :
       (lastOp'.eval = e /\ lastOp'.op \in {"begin", "x="}) =>
         /\ heap'[CallerGlobals] = heap[CallerGlobals]
         /\ \A o \in EvalIds \ {e} :
              evals[o].status # "idle" =>
                heap'[evals[o].sandbox] = heap[evals[o].sandbox]]_vars

\* both evaluations run, one has just bound x at top level, the other has
\* no x and the caller's globals object has none
C7_Witness ==
  /\ \A e \in EvalIds : evals[e].status = "running"
  /\ lastOp.op = "x="
  /\ \E e \in EvalIds :
       /\ lastOp.eval = e
       /\ "x" \in DOMAIN heap[evals[e].sandbox].props
       /\ \A o \in EvalIds \ {e} : "x" \notin DOMAIN heap[evals[o].sandbox].props
  /\ "x" \notin DOMAIN heap[CallerGlobals].props

(***************************************************************************)
(* Properties of the script text and of pathToAssetName.                   *)
(***************************************************************************)
\* C10: line k of the source, other than a removed interpreter directive,
\* is line k of the script that is run.
C10_LineNumbersKept ==
  scriptPc = "built" =>
    \A k \in 1..Len(Lines(source)) :
      \/ k = 1 /\ HasShebang(source)
      \/ /\ k <= Len(Lines(script))
         /\ Lines(script)[k] = Lines(source)[k]

RECURSIVE StripLeadingSeparators(_)
\* a path without the separators it begins with
StripLeadingSeparators(p) ==
  IF BeginsWithSeparator(p) THEN StripLeadingSeparators(Tail(p)) ELSE p

\* C6: the asset name is the output path with any leading separator
\* stripped, index.html appended as a further segment exactly when the
\* stripped name does not end in .htm or .html; it never begins with a
\* separator.
C6_AssetNameAsDescribed ==
  pathPc = "named" =>
    LET stripped == StripLeadingSeparators(outputPath)
    IN  /\ ~BeginsWithSeparator(assetName)
        /\ EndsWith(assetName, INDEX_HTML) \/ HasHtmlExtension(stripped)
        /\ HasHtmlExtension(stripped) => assetName = stripped

(***************************************************************************)
(* The generator driver (IsomorphicHtmlWebpackPlugin.ts).                  *)
(***************************************************************************)
\* compilation.getStats()
Stats == HostValue("stats")

PAGE_HTML == <<"p", "a", "g", "e", ".", "h", "t", "m", "l">>

RawSource(html) == [script |-> <<>>, html |-> html]

WithAsset(as, name, content) ==
  [k \in DOMAIN as \cup {name} |-> IF k = name THEN content ELSE as[k]]

\* function findAssets(entry, compilation, stats): the names of the assets
\* it returns (a name without an asset stands for the undefined it returns
\* in its place), or what it throws
findAssets(entry, as, chunks) ==
  IF entry \in DOMAIN as
  THEN [thrown |-> NoThrow, found |-> <<entry>>]
  ELSE IF chunks.kind = "none"
  THEN [thrown |-> ErrorAbout("couldn't find entry point", entry), found |-> <<>>]
  ELSE [thrown |-> NoThrow, found |-> chunks.names]

\* assets.map(asset => asset.source()).join('\n'): the statements of the
\* assets in order
RECURSIVE JoinSources(_, _)
JoinSources(as, found) ==
  IF found = <<>> THEN <<>>
  ELSE as[Head(found)].script \o JoinSources(as, Tail(found))

\* exportAsset without its test: compilation.assets[assetName] is assigned
\* whatever it holds
exportAssetOverwriting(as, fileName, html) ==
  [assets |-> WithAsset(as, pathToAssetName(fileName), RawSource(html)),
   thrown |-> NoThrow]

\* function exportAsset(compilation, fileName, source)
exportAsset(as, fileName, html) ==
  LET name == pathToAssetName(fileName)
  IN  IF name \in DOMAIN as
      THEN [assets |-> as, thrown |-> ErrorAbout("asset already exported", name)]
      ELSE [assets |-> WithAsset(as, name, RawSource(html)), thrown |-> NoThrow]

RECURSIVE exportAll(_, _)
\* Object.keys(generatedHtml).forEach(fileName => exportAsset(...)): in key
\* order, up to the first call that throws
exportAll(as, entries) ==
  IF entries = <<>> THEN [assets |-> as, thrown |-> NoThrow]
  ELSE LET r == exportAsset(as, Head(entries).path, Head(entries).html)
       IN  IF r.thrown # NoThrow THEN r ELSE exportAll(r.assets, Tail(entries))

\* the bodies of the generator functions an entry point may export
GeneratorCodes ==
  { "fixture", "twoPages", "samePage", "clash", "null", "text",
    "rejectError", "rejectUndefined", "throws" }

Page(path, html) == [path |-> path, html |-> html]
Resolves(shape, val, entries) ==
  [kind |-> "resolve", val |-> val, shape |-> shape, entries |-> entries]

\* what calling the generator with (a1, a2) gives: a promise resolved with a
\* mapping (entries, in key order) or with something else, a rejected
\* promise, or an exception
GeneratorOutcome(code, h, a1, a2) ==
  CASE code = "fixture" ->
         \* { 'index.html': ... + locals.c + ... } with locals the first
         \* parameter, as the fixture of the test declares it
         Resolves("map", Undefined,
           << Page(INDEX_HTML, IF GetProp(h, a1, "c").t = "string"
                               THEN GetProp(h, a1, "c") ELSE Str("undefined")) >>)
    [] code = "twoPages" ->
         Resolves("map", Undefined,
           << Page(<<"/", "a", ".", "h", "t", "m">>, Str("A")),
              Page(<<"b">>, Str("B")) >>)
    [] code = "samePage" ->
         Resolves("map", Undefined,
           << Page(<<"a">>, Str("A")),
              Page(<<"a", "/">> \o INDEX_HTML, Str("B")) >>)
    [] code = "clash" ->
         Resolves("map", Undefined,
           << Page(<<"x", ".", "h", "t", "m", "l">>, Str("X")),
              Page(<<"/">> \o PAGE_HTML, Str("P")) >>)
    [] code = "null" -> Resolves("null", Null, <<>>)
    [] code = "text" -> Resolves("string", Str("ab"), <<>>)
    [] code = "rejectError" ->
         [kind |-> "reject", val |-> ErrorValue("generator failed"),
          shape |-> "", entries |-> <<>>]
    [] code = "rejectUndefined" ->
         [kind |-> "reject", val |-> Undefined, shape |-> "", entries |-> <<>>]
    [] OTHER ->
         [kind |-> "throw", val |-> ErrorValue("generator threw"),
          shape |-> "", entries |-> <<>>]

\* Object.keys(generatedHtml) with generatedHtml[fileName]: TypeError on null
\* and undefined; the indices and characters of a string
ObjectEntries(outcome) ==
  CASE outcome.shape = "map" -> [thrown |-> NoThrow, entries |-> outcome.entries]
    [] outcome.shape = "string" ->
         [thrown |-> NoThrow,
          entries |-> << Page(<<"0">>, Str("a")), Page(<<"1">>, Str("b")) >>]
    [] OTHER -> [thrown |-> ErrorValue("TypeError"), entries |-> <<>>]

\* err.stack: the text of an Error, naming what its message names; nothing
\* for another value
StackOf(err) ==
  IF err.t = "error" THEN [Str(err.s) EXCEPT !.n = err.n] ELSE Undefined

\* catch (err) { compilation.errors.push(err.stack); }: reading .stack of
\* undefined or null throws inside the handler, which rejects the promise
\* generate returned
Catch(errs, err) ==
  IF Nullish(err) THEN [pc |-> "rejected", errors |-> errs]
  ELSE [pc |-> "resolved", errors |-> Append(errs, StackOf(err))]

Gave(h, thrown, module, evaluated, made, outcome) ==
  [heap |-> h, thrown |-> thrown, module |-> module, evaluated |-> evaluated,
   calls |-> made, outcome |-> outcome]

\* generate, from the call of the generator to its await
\*   const generate = generatorModule.default as GeneratorFunction;
\*   const generatedHtml = await generate(webpackStats, locals);
callGenerator(h, module, locals) ==
  IF TypeOf(h, GetProp(h, module, "default")) # "function"
  THEN \* generate is not a function
       Gave(h, ErrorValue("TypeError"), module, 1, <<>>, NoOutcome)
  ELSE Gave(h, NoThrow, module, 1,
            << [fn |-> GetProp(h, module, "default"), a1 |-> Stats, a2 |-> locals] >>,
            GeneratorOutcome(h[GetProp(h, module, "default").r].code, h, Stats, locals))

\* generate, from the return of evaluate (ev) to its await: the two tests of
\* generatorModule, then the call
checkGeneratorModule(ev, entry, locals) ==
  IF ev.thrown # NoThrow
  THEN Gave(ev.heap, ev.thrown, Unbound, 1, <<>>, NoOutcome)
  ELSE IF Nullish(ev.value)
  THEN \* generatorModule.hasOwnProperty of undefined
       Gave(ev.heap, ErrorValue("TypeError"), ev.value, 1, <<>>, NoOutcome)
  ELSE IF ~HasOwn(ev.heap, ev.value, "default")
  THEN Gave(ev.heap, ErrorAbout("doesn't have a default export", entry),
            ev.value, 1, <<>>, NoOutcome)
  ELSE IF TypeOf(ev.heap, ev.value) # "function"
  THEN Gave(ev.heap, ErrorAbout("default export must be a function", entry),
            ev.value, 1, <<>>, NoOutcome)
  ELSE callGenerator(ev.heap, ev.value, locals)

\* generate, from the return of findAssets (fa) to its await
evaluateFound(v, h, as, fa, entry, locals, globals) ==
  IF fa.thrown # NoThrow
  THEN Gave(h, fa.thrown, Unbound, 0, <<>>, NoOutcome)
  ELSE IF \E i \in 1..Len(fa.found) : fa.found[i] \notin DOMAIN as
  THEN \* asset.source() of undefined
       Gave(h, ErrorValue("TypeError"), Unbound, 0, <<>>, NoOutcome)
  ELSE checkGeneratorModule(
         evaluate(v, h, JoinSources(as, fa.found), entry, globals), entry, locals)

\* generate, from its start to its await: what is thrown (NoThrow when the
\* await is reached), what evaluate returned, and the generator calls made
generateToAwait(v, h, as, chunks, entry, locals, globals) ==
  evaluateFound(v, h, as, findAssets(entry, as, chunks), entry, locals, globals)

\* the end of a part of generate that threw err (NoThrow: nothing thrown,
\* and the run goes on at next)
Settle(err, isThrown, next) ==
  /\ genPc' = IF isThrown THEN Catch(errors, err).pc ELSE next
  /\ errors' = IF isThrown THEN Catch(errors, err).errors ELSE errors
  /\ failed' = (failed \/ isThrown)

GenerateCallGave(g) ==
  /\ heap' = g.heap
  /\ generatorModule' = g.module
  /\ findAssetsCalls' = findAssetsCalls + 1
  /\ evaluateCalls' = evaluateCalls + g.evaluated
  /\ calls' = calls \o g.calls
  /\ pending' = g.outcome
  /\ Settle(IF g.outcome.kind = "throw" THEN g.outcome.val ELSE g.thrown,
            g.thrown # NoThrow \/ g.outcome.kind = "throw", "awaiting")

\* private async generate(compilation), up to the await or to its end
GenerateCall ==
  /\ genPc = "idle"
  /\ GenerateCallGave(generateToAwait(version, heap, assets, chunkNames, ENTRY,
                                      Ref(LocalsObject), CallerGlobals))
  /\ UNCHANGED <<assets, assets0, chunkNames, version, pathVars, scriptVars, evalVars>>

\* Object.keys(generatedHtml).forEach(...) on what the promise resolved with
exportResult(as, keys) ==
  IF keys.thrown # NoThrow THEN [assets |-> as, thrown |-> keys.thrown]
  ELSE exportAll(as, keys.entries)

GenerateResumeGave(ex) ==
  /\ assets' = IF pending.kind = "reject" THEN assets ELSE ex.assets
  /\ Settle(IF pending.kind = "reject" THEN pending.val ELSE ex.thrown,
            pending.kind = "reject" \/ ex.thrown # NoThrow, "resolved")

\* generate, from the settling of the awaited promise to its end
GenerateResume ==
  /\ genPc = "awaiting"
  /\ GenerateResumeGave(exportResult(assets, ObjectEntries(pending)))
  /\ UNCHANGED <<heap, assets0, chunkNames, pending, generatorModule, calls,
                 findAssetsCalls, evaluateCalls, version, pathVars, scriptVars,
                 evalVars>>

(***************************************************************************)
(* SpecGen: one run of generate on every entry point and compilation of    *)
(* the sets below.                                                         *)
(***************************************************************************)
FunctionExports == Stmt("module.exports=", "", FunLit("module"))

EntryScripts ==
  { <<>>,
    << Stmt("exports.k=", "default", StrLit("text")) >>,
    << FunctionExports >>,
    << FunctionExports, Stmt("module.exports.k=", "default", StrLit("text")) >>,
    << Stmt("exports=", "", UndefLit) >>,
    << Stmt("throw", "", ErrLit("boom")) >>,
    << Stmt("throw", "", UndefLit) >> }
  \cup { << Stmt("exports.k=", "default", FunLit(c)) >> : c \in GeneratorCodes }
  \cup { << FunctionExports, Stmt("module.exports.k=", "default", FunLit(c)) >> :
           c \in GeneratorCodes }

CHUNK_JS == <<"c", ".", "j", "s">>
CHUNK_MAP == <<"c", ".", "m", "a", "p">>

\* how the compilation holds the entry point's code, whether it already
\* holds page.html, and its chunk names
Compilations(entryScript) ==
  LET page == [k \in {PAGE_HTML} |-> RawSource(Str("built"))]
      code(name, stmts) == [k \in {name} |-> [script |-> stmts, html |-> Undefined]]
      first == IF entryScript = <<>> THEN <<>> ELSE <<Head(entryScript)>>
      rest == IF entryScript = <<>> THEN <<>> ELSE Tail(entryScript)
      both(f, g) == [k \in DOMAIN f \cup DOMAIN g |-> IF k \in DOMAIN f THEN f[k] ELSE g[k]]
      layouts ==
        { [assets |-> code(ENTRY, entryScript), chunks |-> NoChunks],
          [assets |-> code(CHUNK_JS, entryScript),
           chunks |-> [kind |-> "name", names |-> <<CHUNK_JS>>]],
          [assets |-> both(code(CHUNK_JS, first), code(CHUNK_MAP, rest)),
           chunks |-> [kind |-> "array", names |-> <<CHUNK_JS, CHUNK_MAP>>]],
          [assets |-> NoAssets, chunks |-> NoChunks],
          [assets |-> NoAssets,
           chunks |-> [kind |-> "name", names |-> <<CHUNK_JS>>]] }
  IN  layouts \cup {[assets |-> both(l.assets, page), chunks |-> l.chunks] : l \in layouts}

InitGen ==
  /\ version \in EvaluateVersions
  /\ heap = HostHeap([k \in {"d"} |-> Str("d")])
  /\ \E sc \in EntryScripts : \E c \in Compilations(sc) :
       /\ assets = c.assets /\ assets0 = c.assets /\ chunkNames = c.chunks
  /\ genPc = "idle" /\ errors = <<>> /\ pending = NoOutcome
  /\ generatorModule = Unbound /\ calls = <<>>
  /\ findAssetsCalls = 0 /\ evaluateCalls = 0 /\ failed = FALSE
  /\ PathIdle /\ ScriptIdle /\ EvalIdle

NextGen == GenerateCall \/ GenerateResume

SpecGen == InitGen /\ [][NextGen]_vars

(***************************************************************************)
(* Properties of one run of generate.                                      *)
(***************************************************************************)
\* the promise generate returned is settled
Settled == genPc \in {"resolved", "rejected"}

\* what evaluate returned has an own property default
HasDefaultExport == IsRef(generatorModule) /\ HasOwn(heap, generatorModule, "default")

DefaultExport == GetProp(heap, generatorModule, "default")

\* every entry is in the asset set, under the name derived from its path
Written(as, entries) ==
  \A i \in 1..Len(entries) :
    /\ pathToAssetName(entries[i].path) \in DOMAIN as
    /\ as[pathToAssetName(entries[i].path)] = RawSource(entries[i].html)

\* C2: when the exports evaluate returned have a callable default export,
\* generate calls it exactly once, with the configured locals first and the
\* build stats second, and then writes the entries of the mapping it gave.
C2_GeneratorCalledWithLocalsThenStats ==
  (genPc # "idle" /\ HasDefaultExport /\ TypeOf(heap, DefaultExport) = "function") =>
    /\ Len(calls) = 1
    /\ calls[1].fn = DefaultExport
    /\ calls[1].a1 = Ref(LocalsObject)
    /\ calls[1].a2 = Stats
    /\ (genPc = "resolved" /\ pending.shape = "map" /\ ~failed) =>
         Written(assets, pending.entries)

\* C4: an entry point without default export, with a default export that is
\* not callable, or whose generator gives something that is no mapping, ends
\* generate with one error in compilation.errors that names the entry
\* point; in the first two cases the generator is not called and no asset is
\* written.
C4_ContractViolationsNameTheEntry ==
  LET noDefault == IsRef(generatorModule) /\ ~HasDefaultExport
      notCallable == HasDefaultExport /\ TypeOf(heap, DefaultExport) # "function"
      malformed == Len(calls) = 1 /\ pending.kind = "resolve" /\ pending.shape # "map"
  IN  Settled =>
        /\ (noDefault \/ notCallable \/ malformed) =>
             /\ genPc = "resolved"
             /\ Len(errors) = 1
             /\ errors[1].n = ENTRY
        /\ (noDefault \/ notCallable) => calls = <<>> /\ assets = assets0

\* C8: when a run given a mapping ends, either no error was recorded and
\* every entry of the mapping is written, or an error was recorded and the
\* asset set is what it was before the run.
C8_NoPartialSuccess ==
  (Settled /\ pending.kind = "resolve" /\ pending.shape = "map") =>
    \/ errors = <<>> /\ Written(assets, pending.entries)
    \/ errors # <<>> /\ assets = assets0

\* C9: findAssets, evaluate and the generator are each called at most once;
\* the promise generate returned never rejects; a run in which something was
\* thrown or rejected adds exactly one entry to compilation.errors, another
\* run adds none.
C9_EveryFailureRecordedOnce ==
  /\ findAssetsCalls <= 1 /\ evaluateCalls <= 1 /\ Len(calls) <= 1
  /\ genPc # "rejected"
  /\ Settled => Len(errors) = (IF failed THEN 1 ELSE 0)

\* C5: exporting the entries of a mapping leaves every asset already in the
\* asset set as it is; at the first entry whose derived name is taken (by an
\* asset of the build, or by an earlier entry of the mapping) the run ends
\* with an error naming that asset, and the asset keeps the content it had.
C5_ExportNeverOverwrites ==
  [][(genPc = "awaiting" /\ pending.kind = "resolve" /\ pending.shape = "map") =>
       LET names == [i \in 1..Len(pending.entries) |->
                       pathToAssetName(pending.entries[i].path)]
           taken(i) == \/ names[i] \in DOMAIN assets
                       \/ \E j \in 1..(i - 1) : names[j] = names[i]
       IN  /\ \A n \in DOMAIN assets : n \in DOMAIN assets' /\ assets'[n] = assets[n]
           /\ \A i \in 1..Len(names) :
                (taken(i) /\ \A j \in 1..(i - 1) : ~taken(j)) =>
                  /\ Len(errors') = Len(errors) + 1
                  /\ errors'[Len(errors')].n = names[i]
                  /\ names[i] \in DOMAIN assets'
                  /\ \A j \in 1..(i - 1) :
                       names[j] = names[i] =>
                         assets'[names[i]] = RawSource(pending.entries[j].html)
                  /\ \A j \in i..Len(names) :
                       (names[j] \notin DOMAIN assets /\ \A k \in 1..(i - 1) : names[k] # names[j])
                         => names[j] \notin DOMAIN assets'
    ]_vars

\* a run ended on an asset name that an earlier entry of the same mapping
\* had taken, the two entries having different paths
C5_Witness ==
  /\ genPc = "resolved"
  /\ Len(errors) = 1
  /\ errors[1].s = "asset already exported"
  /\ errors[1].n \notin DOMAIN assets0
  /\ errors[1].n \in DOMAIN assets
  /\ \E i, j \in 1..Len(pending.entries) :
       /\ i < j
       /\ pending.entries[i].path # pending.entries[j].path
       /\ pathToAssetName(pending.entries[i].path) = errors[1].n
       /\ pathToAssetName(pending.entries[j].path) = errors[1].n

====
